---- MODULE Spec2Model ----
(***************************************************************************)
(* State-machine model of the Chroma memory MCP server                     *)
(* (decorators.py, database.py, llm_utils.py, tools.py, server.py).        *)
(*                                                                         *)
(* Strings the code inspects character by character (texts, queries,       *)
(* keywords, metadata values) are sequences of one-character strings;      *)
(* names and ids, which the code only compares, are TLA+ strings.          *)
(* A Python dict is a function whose DOMAIN is its key set; None and {}    *)
(* (both falsy) are the function with the empty domain.                    *)
(***************************************************************************)
EXTENDS Integers, Sequences, FiniteSets, TLC

VARIABLES store, privilege_granted, last, sinceGrant, grantRepeated, pc, ran

vars == <<store, privilege_granted, last, sinceGrant, grantRepeated, pc, ran>>

(***************************************************************************)
(* Bounds and input sets                                                   *)
(***************************************************************************)
MaxTopK == 2
MaxSinceGrant == 2

DEFAULT_COLLECTION_NAME == "agent_memory"
Names == {DEFAULT_COLLECTION_NAME, "notes"}
EmptyStr == ""
ExplicitIds == {"d1"}
UuidPool == {"u1"}
RecallIds == {"d1", "d2"}
Ids == ExplicitIds \cup RecallIds \cup UuidPool
IdOrder == <<"d1", "d2", "u1">>

Empty == << >>
NoneVal == <<"None">>
TextAb == <<"A", "b">>
TextB == <<"b">>
Texts == {TextAb, TextB}
TagT == <<"t">>
EmptyDict == [k \in {} |-> Empty]
PyInt0 == "int:0"

Threads == {"t1", "t2"}

(***************************************************************************)
(* Python string helpers                                                   *)
(***************************************************************************)
LowerChar(ch) ==
  CASE ch = "A" -> "a"
    [] ch = "B" -> "b"
    [] OTHER -> ch

lower(s) == [i \in 1..Len(s) |-> LowerChar(s[i])]

\* Python's `needle in hay` on strings.
StrIn(needle, hay) ==
  \E i \in 0..(Len(hay) - Len(needle)) :
    SubSeq(hay, i + 1, i + Len(needle)) = needle

(***************************************************************************)
(* Model Provider                                                          *)
(***************************************************************************)
CharCode(ch) ==
  CASE ch = "a" -> 1
    [] ch = "A" -> 2
    [] ch = "b" -> 4
    [] ch = "B" -> 7
    [] OTHER -> 0

RECURSIVE CharSum(_)
CharSum(s) == IF s = Empty THEN 0 ELSE CharCode(Head(s)) + CharSum(Tail(s))

\* genai.embed_content: a deterministic vector of the text and the task type
\* (one dimension is kept).
embed_content(text, task_type) ==
  3 * CharSum(text) + (IF task_type = "RETRIEVAL_QUERY" THEN 1 ELSE 0)

\* generate_embedding: ValueError on empty text before any provider call;
\* RuntimeError when the provider returns no embedding (`down`).
generate_embedding(text, task_type, down) ==
  IF text = Empty
    THEN [err |-> "validation", value |-> 0, calls |-> 0]
    ELSE IF down
      THEN [err |-> "upstream", value |-> 0, calls |-> 1]
      ELSE [err |-> "ok", value |-> embed_content(text, task_type), calls |-> 1]

SummaryText == <<"s">>

\* generate_summary: the model's text, or ValueError when the response has
\* no parts (`down`).
generate_summary(context, query, down) ==
  IF down
    THEN [err |-> "upstream", value |-> Empty, calls |-> 1]
    ELSE [err |-> "ok", value |-> SummaryText, calls |-> 1]

(***************************************************************************)
(* Vector Store (chromadb client and collections)                          *)
(***************************************************************************)
Exists(st, c) == c \in DOMAIN st

Records(st, c) == IF Exists(st, c) THEN st[c] ELSE EmptyDict

Has(st, c, d) == Exists(st, c) /\ d \in DOMAIN st[c]

\* chroma_client.get_or_create_collection(name)
get_or_create_collection(st, c) ==
  IF c \in DOMAIN st THEN st
  ELSE [n \in DOMAIN st \cup {c} |-> IF n = c THEN EmptyDict ELSE st[n]]

\* Mutant: the name is resolved with create_collection on a fresh handle, so
\* an existing collection is replaced by an empty one.
get_collection_recreates(st, c) ==
  [n \in DOMAIN st \cup {c} |-> IF n = c THEN EmptyDict ELSE st[n]]

\* database.get_collection: the store after resolving the name.
get_collection(st, c) == get_or_create_collection(st, c)

PutRecord(st, c, d, rec) ==
  [st EXCEPT ![c] = [i \in DOMAIN st[c] \cup {d} |->
                       IF i = d THEN rec ELSE st[c][i]]]

\* Collection.add: a record whose id already exists is left as it is (the
\* store logs "Insert of existing embedding ID" and raises nothing).
chroma_add(st, c, d, emb, md) ==
  IF d \in DOMAIN st[c] THEN st
  ELSE PutRecord(st, c, d, [embedding |-> emb, metadata |-> md])

\* Collection.delete(ids=[d]): a missing id is ignored.
chroma_delete(st, c, d) ==
  [st EXCEPT ![c] = [i \in DOMAIN st[c] \ {d} |-> st[c][i]]]

\* Collection.update merges the given metadata into the stored one: a key
\* given with the value None is removed, any other key is set.
MergeMetadata(old, new) ==
  LET removed == {k \in DOMAIN new : new[k] = NoneVal}
      keys == (DOMAIN old \cup DOMAIN new) \ removed
  IN [k \in keys |-> IF k \in DOMAIN new THEN new[k] ELSE old[k]]

\* Collection.update(ids=[d], metadatas=[md], embeddings=[emb]): a missing id
\* is ignored.
chroma_update(st, c, d, md, emb) ==
  IF d \notin DOMAIN st[c] THEN st
  ELSE PutRecord(st, c, d,
         [embedding |-> emb, metadata |-> MergeMetadata(st[c][d].metadata, md)])

\* client.delete_collection(name): ValueError when the collection is missing.
chroma_delete_collection(st, c) ==
  [n \in DOMAIN st \ {c} |-> st[n]]

\* A dict subscript d[k]: KeyError when k is no key.
DictGetItem(d, k) ==
  IF k \in DOMAIN d THEN [err |-> "ok", value |-> d[k]]
  ELSE [err |-> "KeyError", value |-> Empty]

\* Ids of a set in the store's fixed iteration order.
RECURSIVE OrderedFrom(_, _)
OrderedFrom(S, n) ==
  IF n > Len(IdOrder) THEN << >>
  ELSE (IF IdOrder[n] \in S THEN <<IdOrder[n]>> ELSE << >>) \o OrderedFrom(S, n + 1)

Ordered(S) == OrderedFrom(S, 1)

\* Collection.get(ids=...): flat lists, one entry per record found.
chroma_get(st, c, wanted) ==
  LET found == Ordered(DOMAIN st[c] \cap wanted)
  IN [ids |-> found,
      metadatas |-> [i \in 1..Len(found) |-> st[c][found[i]].metadata],
      embeddings |-> [i \in 1..Len(found) |-> st[c][found[i]].embedding]]

Rank(d) == CHOOSE n \in 1..Len(IdOrder) : IdOrder[n] = d

\* Squared L2 distance, the store's default metric.
Distance(a, b) == (a - b) * (a - b)

\* The `where` filter: every filter field equals the stored metadata field.
\* where=None is the filter with no field.
WhereMatches(md, where) ==
  \A k \in DOMAIN where : k \in DOMAIN md /\ md[k] = where[k]

\* The n nearest ids of S, nearest first (equal distances in store order).
RECURSIVE Nearest(_, _, _, _)
Nearest(recs, S, qemb, n) ==
  IF S = {} \/ n <= 0 THEN << >>
  ELSE LET key(i) == Distance(recs[i].embedding, qemb)
           best == CHOOSE i \in S :
                     \A j \in S : key(i) < key(j)
                                  \/ (key(i) = key(j) /\ Rank(i) <= Rank(j))
       IN <<best>> \o Nearest(recs, S \ {best}, qemb, n - 1)

\* Collection.query(query_embeddings=[q], n_results=n, where=w): nested
\* lists, one inner list per query embedding; n < 1 is refused.
chroma_query(st, c, qemb, n, where) ==
  IF n < 1
    THEN [err |-> "store", ids |-> << >>, metadatas |-> << >>, distances |-> << >>]
    ELSE LET recs == st[c]
             hits == Nearest(recs, {i \in DOMAIN recs :
                                      WhereMatches(recs[i].metadata, where)},
                             qemb, n)
         IN [err |-> "ok",
             ids |-> << hits >>,
             metadatas |-> << [i \in 1..Len(hits) |-> recs[hits[i]].metadata] >>,
             distances |-> << [i \in 1..Len(hits) |->
                                Distance(recs[hits[i]].embedding, qemb)] >>]

(***************************************************************************)
(* Operation outcomes                                                      *)
(***************************************************************************)
\* err: "ok", or the kind of the exception the caller receives inside the
\* McpError envelope: "validation" (ValueError of an input check),
\* "not_found" (ValueError of update_memory_metadata), "privilege"
\* (PrivilegeError), "upstream" (Model Provider), "store" (Vector Store),
\* "KeyError".
Blank ==
  [op |-> "none", coll |-> EmptyStr, doc_id |-> EmptyStr, text |-> Empty,
   meta |-> EmptyDict, keyword |-> NoneVal, top_k |-> 0, filter |-> EmptyDict,
   err |-> "ok", rid |-> EmptyStr, rtexts |-> << >>, rdists |-> << >>,
   rbool |-> FALSE, rtext |-> Empty, rnames |-> {}, rids |-> << >>,
   embCalls |-> 0, genCalls |-> 0, exc |-> << >>]

Call(op, c, d, text) ==
  [Blank EXCEPT !.op = op, !.coll = c, !.doc_id = d, !.text = text]

Seq_unchanged == UNCHANGED <<pc, ran, grantRepeated>>

(***************************************************************************)
(* decorators.py: the privilege gate                                       *)
(***************************************************************************)
\* Mutant: the wrapper lets every call through.
require_privilege_check_always(granted) == TRUE

\* require_privilege.wrapper, line 25: the test of the flag.
require_privilege_check(granted) == granted

\* Mutant: the wrapper forgets to reset the flag.
require_privilege_reset_kept(granted) == granted

\* require_privilege.wrapper, line 26: the value the flag gets on entry.
require_privilege_reset(granted) == FALSE

BumpSinceGrant ==
  IF sinceGrant < 0 \/ sinceGrant >= MaxSinceGrant THEN sinceGrant
  ELSE sinceGrant + 1

\* An exception is the sequence of its classes from the outside in: the
\* exception a body raises is << kind >>, and McpError(e) puts "McpError"
\* in front of e. No exception (a normal return) is the empty sequence.
Raise(kind) == IF kind = "ok" THEN << >> ELSE << kind >>

\* McpError(e): the exception e wrapped; the constructor is taken to accept
\* any exception object, as both decorators use it.
McpError(e) == << "McpError" >> \o e

\* Mutant: the handler wraps whatever it catches, an McpError included.
handle_errors_as_mcp_always_wraps(e) ==
  IF e = << >> THEN e ELSE McpError(e)

\* handle_errors_as_mcp.wrapper, lines 49-56, on the exception e leaving the
\* wrapped function: an McpError is re-raised as it is, anything else is
\* wrapped.
handle_errors_as_mcp(e) ==
  IF e = << >> THEN e
  ELSE IF Head(e) = "McpError" THEN e
  ELSE McpError(e)

\* An exception of the given kind raised in the body of a tool, as it leaves
\* the tool's handle_errors_as_mcp.
Caught(kind) == handle_errors_as_mcp(Raise(kind))

\* require_privilege.wrapper, lines 28-36: the refusal is raised as an
\* McpError around a PrivilegeError, outside handle_errors_as_mcp.
require_privilege_denied == McpError(Raise("privilege"))

\* chroma_client.get_or_create_collection refuses a name that is not a valid
\* collection name; of the names used here the empty one is invalid.
ValidCollectionName(c) == c # EmptyStr

\* database.get_collection, lines 23-28, on a refused name: the ValueError of
\* the client leaves get_collection through its own handle_errors_as_mcp.
get_collection_raise == Caught("store")

\* A tool whose call of database.get_collection raised: the McpError passes
\* the tool's own handle_errors_as_mcp, and the store is as it was.
GetCollectionFailed(call) ==
  /\ last' = [call EXCEPT !.err = "store",
                          !.exc = handle_errors_as_mcp(get_collection_raise)]
  /\ UNCHANGED store

\* Ghost: whether this grant_privilege() call follows another one with no
\* privileged call in between, i.e. the current run of grants has two or more.
GrantFollowsGrant == sinceGrant = 0

\* Mutant: the call flips the flag instead of setting it.
grant_privilege_toggle ==
  /\ privilege_granted' = ~privilege_granted
  /\ sinceGrant' = 0
  /\ grantRepeated' = GrantFollowsGrant
  /\ last' = [Blank EXCEPT !.op = "grant_privilege", !.rbool = TRUE]
  /\ UNCHANGED store
  /\ UNCHANGED <<pc, ran>>

grant_privilege ==
  /\ privilege_granted' = TRUE
  /\ sinceGrant' = 0
  /\ grantRepeated' = GrantFollowsGrant
  /\ last' = [Blank EXCEPT !.op = "grant_privilege", !.rbool = TRUE]
  /\ UNCHANGED store
  /\ UNCHANGED <<pc, ran>>

(***************************************************************************)
(* tools.py                                                                *)
(***************************************************************************)
\* dict.update: the keys of b win.
DictUpdate(a, b) ==
  [k \in DOMAIN a \cup DOMAIN b |-> IF k \in DOMAIN b THEN b[k] ELSE a[k]]

\* add_memory, lines 37-39.
final_metadata(text, metadata) ==
  IF metadata # EmptyDict
    THEN DictUpdate([k \in {"original_text"} |-> text], metadata)
    ELSE [k \in {"original_text"} |-> text]

\* uuid.uuid4().hex: a token no record of the store carries.
FreshUuids(st) == {u \in UuidPool : \A c \in DOMAIN st : u \notin DOMAIN st[c]}

\* add_memory(text, doc_id, metadata, collection_name); doc_id "" stands for
\* an omitted (or empty) doc_id, uuid for the token uuid4 hands out then.
add_memory(text, doc_id, metadata, c, uuid, down) ==
  LET call == [Call("add_memory", c, doc_id, text) EXCEPT !.meta = metadata]
      final_doc_id == IF doc_id # EmptyStr THEN doc_id ELSE uuid
      st1 == get_collection(store, c)
      e == generate_embedding(text, "RETRIEVAL_DOCUMENT", down)
  IN /\ doc_id = EmptyStr => uuid \in FreshUuids(store)
     /\ IF text = Empty
          THEN /\ last' = [call EXCEPT !.err = "validation", !.exc = Caught("validation")]
               /\ UNCHANGED store
          ELSE IF ~ValidCollectionName(c)
            THEN GetCollectionFailed(call)
          ELSE IF e.err # "ok"
            THEN /\ last' = [call EXCEPT !.err = e.err, !.exc = Caught(e.err), !.embCalls = e.calls]
                 /\ store' = st1
            ELSE /\ store' = chroma_add(st1, c, final_doc_id, e.value,
                                        final_metadata(text, metadata))
                 /\ last' = [call EXCEPT !.rid = final_doc_id,
                                         !.embCalls = e.calls]
     /\ UNCHANGED <<privilege_granted, sinceGrant>>
     /\ Seq_unchanged

\* `if metadata_item and "original_text" in metadata_item`
HasText(md) == md # EmptyDict /\ "original_text" \in DOMAIN md

\* The loop of recall_memory, lines 75-79, over results["metadatas"][0].
RECURSIVE CollectTexts(_)
CollectTexts(mds) ==
  IF mds = << >> THEN << >>
  ELSE (IF HasText(Head(mds)) THEN << Head(mds).original_text >> ELSE << >>)
       \o CollectTexts(Tail(mds))

\* Mutant: the store is asked for every record and the first top_k texts are
\* kept, so a hit without original_text is replaced by a farther record.
recall_memory_body_refills(st, query, top_k, filter, c, down) ==
  LET st1 == get_collection(st, c)
      e == generate_embedding(query, "RETRIEVAL_QUERY", down)
      results == chroma_query(st1, c, e.value,
                              IF top_k < 1 THEN top_k
                              ELSE top_k + Cardinality(DOMAIN st1[c]), filter)
      all == IF Len(results.metadatas) > 0
               THEN CollectTexts(results.metadatas[1]) ELSE << >>
  IN IF query = Empty
       THEN [err |-> "validation", exc |-> Raise("validation"), st |-> st,
             texts |-> << >>, embCalls |-> 0]
       ELSE IF ~ValidCollectionName(c)
         THEN [err |-> "store", exc |-> get_collection_raise, st |-> st,
               texts |-> << >>, embCalls |-> 0]
       ELSE IF e.err # "ok"
         THEN [err |-> e.err, exc |-> Raise(e.err), st |-> st1,
               texts |-> << >>, embCalls |-> e.calls]
         ELSE IF results.err # "ok"
           THEN [err |-> results.err, exc |-> Raise(results.err), st |-> st1, texts |-> << >>,
                 embCalls |-> e.calls]
           ELSE [err |-> "ok", exc |-> Raise("ok"), st |-> st1,
                 texts |-> SubSeq(all, 1, IF Len(all) < top_k THEN Len(all)
                                          ELSE top_k),
                 embCalls |-> e.calls]

\* The body of recall_memory: outcome, store afterwards, texts, provider calls.
recall_memory_body(st, query, top_k, filter, c, down) ==
  LET st1 == get_collection(st, c)
      e == generate_embedding(query, "RETRIEVAL_QUERY", down)
      results == chroma_query(st1, c, e.value, top_k, filter)
  IN IF query = Empty
       THEN [err |-> "validation", exc |-> Raise("validation"), st |-> st,
             texts |-> << >>, embCalls |-> 0]
       ELSE IF ~ValidCollectionName(c)
         THEN [err |-> "store", exc |-> get_collection_raise, st |-> st,
               texts |-> << >>, embCalls |-> 0]
       ELSE IF e.err # "ok"
         THEN [err |-> e.err, exc |-> Raise(e.err), st |-> st1,
               texts |-> << >>, embCalls |-> e.calls]
         ELSE IF results.err # "ok"
           THEN [err |-> results.err, exc |-> Raise(results.err), st |-> st1, texts |-> << >>,
                 embCalls |-> e.calls]
           ELSE [err |-> "ok", exc |-> Raise("ok"), st |-> st1,
                 texts |-> IF Len(results.metadatas) > 0
                             THEN CollectTexts(results.metadatas[1])
                             ELSE << >>,
                 embCalls |-> e.calls]

SearchCall(op, query, top_k, filter, c) ==
  [Call(op, c, EmptyStr, query) EXCEPT !.top_k = top_k, !.filter = filter]

recall_memory(query, top_k, filter, c, down) ==
  LET r == recall_memory_body(store, query, top_k, filter, c, down)
  IN /\ store' = r.st
     /\ last' = [SearchCall("recall_memory", query, top_k, filter, c)
                   EXCEPT !.err = r.err, !.exc = handle_errors_as_mcp(r.exc),
                          !.rtexts = r.texts,
                          !.embCalls = r.embCalls]
     /\ UNCHANGED <<privilege_granted, sinceGrant>>
     /\ Seq_unchanged

\* Mutant: delete() is called without the id and empties the collection.
delete_memory_wipes(doc_id, c) ==
  LET call == Call("delete_memory", c, doc_id, Empty)
  IN /\ IF doc_id = EmptyStr
          THEN /\ last' = [call EXCEPT !.err = "validation", !.exc = Caught("validation")]
               /\ UNCHANGED store
          ELSE IF ~ValidCollectionName(c)
            THEN GetCollectionFailed(call)
          ELSE /\ store' = [get_collection(store, c) EXCEPT ![c] = EmptyDict]
               /\ last' = [call EXCEPT !.rbool = TRUE]
     /\ UNCHANGED <<privilege_granted, sinceGrant>>
     /\ Seq_unchanged

delete_memory(doc_id, c) ==
  LET call == Call("delete_memory", c, doc_id, Empty)
  IN /\ IF doc_id = EmptyStr
          THEN /\ last' = [call EXCEPT !.err = "validation", !.exc = Caught("validation")]
               /\ UNCHANGED store
          ELSE IF ~ValidCollectionName(c)
            THEN GetCollectionFailed(call)
          ELSE /\ store' = chroma_delete(get_collection(store, c), c, doc_id)
               /\ last' = [call EXCEPT !.rbool = TRUE]
     /\ UNCHANGED <<privilege_granted, sinceGrant>>
     /\ Seq_unchanged

\* The separator of summarize_memory, line 135: newline, three dashes, newline.
ChunkSeparator == <<"LF", "-", "-", "-", "LF">>

\* The separator of summarize_collection, line 208: the escaped form, a
\* backslash and the letter n in place of each newline.
ChunkSeparatorEscaped == <<"BACKSLASH", "n", "-", "-", "-", "BACKSLASH", "n">>

\* sep.join(texts)
RECURSIVE JoinChunks(_, _)
JoinChunks(texts, sep) ==
  IF texts = << >> THEN Empty
  ELSE IF Len(texts) = 1 THEN Head(texts)
  ELSE Head(texts) \o sep \o JoinChunks(Tail(texts), sep)

\* Mutant: no short-circuit on an empty context.
summarize_memory_no_shortcut(query, top_k, filter, c, down, genDown) ==
  LET call == SearchCall("summarize_memory", query, top_k, filter, c)
      r == recall_memory_body(store, query, top_k, filter, c, down)
      g == generate_summary(JoinChunks(r.texts, ChunkSeparator), query, genDown)
  IN /\ IF query = Empty
          THEN /\ last' = [call EXCEPT !.err = "validation", !.exc = Caught("validation")]
               /\ UNCHANGED store
          ELSE /\ store' = r.st
               /\ IF r.err # "ok"
                    THEN last' = [call EXCEPT !.err = r.err,
                                              !.exc = handle_errors_as_mcp(
                                                        handle_errors_as_mcp(r.exc)),
                                              !.embCalls = r.embCalls]
                    ELSE last' = [call EXCEPT !.err = g.err, !.exc = Caught(g.err),
                                              !.rtext = g.value,
                                              !.embCalls = r.embCalls,
                                              !.genCalls = g.calls]
     /\ UNCHANGED <<privilege_granted, sinceGrant>>
     /\ Seq_unchanged

summarize_memory(query, top_k, filter, c, down, genDown) ==
  LET call == SearchCall("summarize_memory", query, top_k, filter, c)
      r == recall_memory_body(store, query, top_k, filter, c, down)
      g == generate_summary(JoinChunks(r.texts, ChunkSeparator), query, genDown)
  IN /\ IF query = Empty
          THEN /\ last' = [call EXCEPT !.err = "validation", !.exc = Caught("validation")]
               /\ UNCHANGED store
          ELSE /\ store' = r.st
               /\ IF r.err # "ok"
                    THEN last' = [call EXCEPT !.err = r.err,
                                              !.exc = handle_errors_as_mcp(
                                                        handle_errors_as_mcp(r.exc)),
                                              !.embCalls = r.embCalls]
                    ELSE IF r.texts = << >>
                      THEN last' = [call EXCEPT !.embCalls = r.embCalls]
                      ELSE last' = [call EXCEPT !.err = g.err, !.exc = Caught(g.err),
                                                !.rtext = g.value,
                                                !.embCalls = r.embCalls,
                                                !.genCalls = g.calls]
     /\ UNCHANGED <<privilege_granted, sinceGrant>>
     /\ Seq_unchanged

\* Mutant: existence is decided from the texts recall_memory would return.
check_memory_needs_text(topic, filter, c, down) ==
  LET call == SearchCall("check_memory", topic, 1, filter, c)
      st1 == get_collection(store, c)
      e == generate_embedding(topic, "RETRIEVAL_QUERY", down)
      results == chroma_query(st1, c, e.value, 1, filter)
  IN /\ IF topic = Empty
          THEN /\ last' = [call EXCEPT !.err = "validation", !.exc = Caught("validation")]
               /\ UNCHANGED store
          ELSE IF ~ValidCollectionName(c)
            THEN GetCollectionFailed(call)
          ELSE /\ store' = st1
               /\ IF e.err # "ok"
                    THEN last' = [call EXCEPT !.err = e.err, !.exc = Caught(e.err),
                                              !.embCalls = e.calls]
                    ELSE last' = [call EXCEPT
                                    !.rbool = (Len(results.metadatas) > 0
                                               /\ CollectTexts(results.metadatas[1])
                                                    # << >>),
                                    !.embCalls = e.calls]
     /\ UNCHANGED <<privilege_granted, sinceGrant>>
     /\ Seq_unchanged

check_memory(topic, filter, c, down) ==
  LET call == SearchCall("check_memory", topic, 1, filter, c)
      st1 == get_collection(store, c)
      e == generate_embedding(topic, "RETRIEVAL_QUERY", down)
      results == chroma_query(st1, c, e.value, 1, filter)
  IN /\ IF topic = Empty
          THEN /\ last' = [call EXCEPT !.err = "validation", !.exc = Caught("validation")]
               /\ UNCHANGED store
          ELSE IF ~ValidCollectionName(c)
            THEN GetCollectionFailed(call)
          ELSE /\ store' = st1
               /\ IF e.err # "ok"
                    THEN last' = [call EXCEPT !.err = e.err, !.exc = Caught(e.err),
                                              !.embCalls = e.calls]
                    ELSE last' = [call EXCEPT
                                    !.rbool = (Len(results.ids) > 0
                                               /\ results.ids[1] # << >>),
                                    !.embCalls = e.calls]
     /\ UNCHANGED <<privilege_granted, sinceGrant>>
     /\ Seq_unchanged

summarize_collection(c, query, genDown) ==
  LET call == Call("summarize_collection", c, EmptyStr, query)
      st1 == get_collection(store, c)
      results == chroma_get(st1, c, DOMAIN st1[c])
      retrieved_texts == CollectTexts(results.metadatas)
      g == generate_summary(JoinChunks(retrieved_texts, ChunkSeparatorEscaped), query,
                            genDown)
  IN /\ IF c = EmptyStr
          THEN /\ last' = [call EXCEPT !.err = "validation", !.exc = Caught("validation")]
               /\ UNCHANGED store
          ELSE IF ~ValidCollectionName(c)
            THEN GetCollectionFailed(call)
          ELSE /\ store' = st1
               /\ IF results.metadatas = << >> \/ retrieved_texts = << >>
                    THEN last' = call
                    ELSE last' = [call EXCEPT !.err = g.err, !.exc = Caught(g.err),
                                              !.rtext = g.value,
                                              !.genCalls = g.calls]
     /\ UNCHANGED <<privilege_granted, sinceGrant>>
     /\ Seq_unchanged

\* Mutant: a missing record is created instead of being reported.
update_memory_metadata_upserts(doc_id, metadata, c) ==
  LET call == [Call("update_memory_metadata", c, doc_id, Empty)
                 EXCEPT !.meta = metadata]
      st1 == get_collection(store, c)
      results == chroma_get(st1, c, {doc_id})
  IN /\ IF doc_id = EmptyStr \/ metadata = EmptyDict
          THEN /\ last' = [call EXCEPT !.err = "validation", !.exc = Caught("validation")]
               /\ UNCHANGED store
          ELSE IF ~ValidCollectionName(c)
            THEN GetCollectionFailed(call)
          ELSE IF results.embeddings = << >>
            THEN /\ last' = [call EXCEPT !.rbool = TRUE]
                 /\ store' = PutRecord(st1, c, doc_id,
                               [embedding |-> 0,
                                metadata |-> MergeMetadata(EmptyDict, metadata)])
            ELSE /\ store' = chroma_update(st1, c, doc_id, metadata,
                                           results.embeddings[1])
                 /\ last' = [call EXCEPT !.rbool = TRUE]
     /\ UNCHANGED <<privilege_granted, sinceGrant>>
     /\ Seq_unchanged

\* Mutant: the collection is resolved before the inputs are validated.
update_memory_metadata_late_check(doc_id, metadata, c) ==
  LET call == [Call("update_memory_metadata", c, doc_id, Empty)
                 EXCEPT !.meta = metadata]
      st1 == get_collection(store, c)
      results == chroma_get(st1, c, {doc_id})
  IN /\ IF doc_id = EmptyStr \/ metadata = EmptyDict
          THEN /\ last' = [call EXCEPT !.err = "validation", !.exc = Caught("validation")]
               /\ store' = st1
          ELSE IF results.embeddings = << >>
            THEN /\ last' = [call EXCEPT !.err = "not_found", !.exc = Caught("not_found")]
                 /\ store' = st1
            ELSE /\ store' = chroma_update(st1, c, doc_id, metadata,
                                           results.embeddings[1])
                 /\ last' = [call EXCEPT !.rbool = TRUE]
     /\ UNCHANGED <<privilege_granted, sinceGrant>>
     /\ Seq_unchanged

update_memory_metadata(doc_id, metadata, c) ==
  LET call == [Call("update_memory_metadata", c, doc_id, Empty)
                 EXCEPT !.meta = metadata]
      st1 == get_collection(store, c)
      results == chroma_get(st1, c, {doc_id})
  IN /\ IF doc_id = EmptyStr \/ metadata = EmptyDict
          THEN /\ last' = [call EXCEPT !.err = "validation", !.exc = Caught("validation")]
               /\ UNCHANGED store
          ELSE IF ~ValidCollectionName(c)
            THEN GetCollectionFailed(call)
          ELSE IF results.embeddings = << >>
            THEN /\ last' = [call EXCEPT !.err = "not_found", !.exc = Caught("not_found")]
                 /\ store' = st1
            ELSE /\ store' = chroma_update(st1, c, doc_id, metadata,
                                           results.embeddings[1])
                 /\ last' = [call EXCEPT !.rbool = TRUE]
     /\ UNCHANGED <<privilege_granted, sinceGrant>>
     /\ Seq_unchanged

\* get_memory_by_id, lines 275-288, on the flat result of Collection.get:
\* results["metadatas"][0] is the record's metadata dict, and line 281
\* subscripts that dict with the integer 0.
get_memory_by_id_text(results) ==
  IF results.metadatas = << >> \/ results.metadatas[1] = EmptyDict
    THEN [err |-> "ok", value |-> Empty]
    ELSE LET metadata == DictGetItem(results.metadatas[1], PyInt0)
         IN IF metadata.err # "ok"
              THEN [err |-> metadata.err, value |-> Empty]
              ELSE [err |-> "ok", value |-> Empty]

get_memory_by_id(doc_id, c) ==
  LET call == Call("get_memory_by_id", c, doc_id, Empty)
      st1 == get_collection(store, c)
      r == get_memory_by_id_text(chroma_get(st1, c, {doc_id}))
  IN /\ IF doc_id = EmptyStr
          THEN /\ last' = [call EXCEPT !.err = "validation", !.exc = Caught("validation")]
               /\ UNCHANGED store
          ELSE IF ~ValidCollectionName(c)
            THEN GetCollectionFailed(call)
          ELSE /\ store' = st1
               /\ last' = [call EXCEPT !.err = r.err, !.exc = Caught(r.err), !.rtext = r.value]
     /\ UNCHANGED <<privilege_granted, sinceGrant>>
     /\ Seq_unchanged

list_collections ==
  LET call == Call("list_collections", EmptyStr, EmptyStr, Empty)
  IN /\ IF require_privilege_check(privilege_granted)
          THEN /\ privilege_granted' = require_privilege_reset(privilege_granted)
               /\ last' = [call EXCEPT !.rnames = DOMAIN store]
          ELSE /\ last' = [call EXCEPT !.err = "privilege", !.exc = require_privilege_denied]
               /\ UNCHANGED privilege_granted
     /\ sinceGrant' = BumpSinceGrant
     /\ UNCHANGED store
     /\ Seq_unchanged

\* Mutant: each kept text is paired with the distance at its position in the
\* returned list instead of the distance at its position among the hits.
CollectPairs_misaligned(mds, dists, i) ==
  LET K == {j \in i..Len(mds) : HasText(mds[j])}
      nth(n) == CHOOSE j \in K : Cardinality({x \in K : x < j}) = n - 1
  IN [n \in 1..Cardinality(K) |-> <<mds[nth(n)].original_text, dists[n]>>]

\* The loop of recall_memory_with_distance, lines 336-340, from index i on.
RECURSIVE CollectPairs(_, _, _)
CollectPairs(mds, dists, i) ==
  IF i > Len(mds) THEN << >>
  ELSE (IF HasText(mds[i]) THEN << <<mds[i].original_text, dists[i]>> >>
        ELSE << >>)
       \o CollectPairs(mds, dists, i + 1)

recall_memory_with_distance(query, top_k, filter, c, down) ==
  LET call == SearchCall("recall_memory_with_distance", query, top_k, filter, c)
      st1 == get_collection(store, c)
      e == generate_embedding(query, "RETRIEVAL_QUERY", down)
      results == chroma_query(st1, c, e.value, top_k, filter)
      pairs == IF Len(results.metadatas) > 0 /\ Len(results.distances) > 0
                 THEN CollectPairs(results.metadatas[1], results.distances[1], 1)
                 ELSE << >>
  IN /\ IF query = Empty
          THEN /\ last' = [call EXCEPT !.err = "validation", !.exc = Caught("validation")]
               /\ UNCHANGED store
          ELSE IF ~ValidCollectionName(c)
            THEN GetCollectionFailed(call)
          ELSE /\ store' = st1
               /\ IF e.err # "ok"
                    THEN last' = [call EXCEPT !.err = e.err, !.exc = Caught(e.err),
                                              !.embCalls = e.calls]
                    ELSE IF results.err # "ok"
                      THEN last' = [call EXCEPT !.err = results.err, !.exc = Caught(results.err),
                                                !.embCalls = e.calls]
                      ELSE last' = [call EXCEPT
                             !.rtexts = [i \in 1..Len(pairs) |-> pairs[i][1]],
                             !.rdists = [i \in 1..Len(pairs) |-> pairs[i][2]],
                             !.embCalls = e.calls]
     /\ UNCHANGED <<privilege_granted, sinceGrant>>
     /\ Seq_unchanged

\* Mutant: the None test is inverted, so a supplied keyword filters nothing.
KeywordKeeps_inverted(keyword, text) ==
  keyword # NoneVal \/ StrIn(lower(keyword), lower(text))

\* recall_memory_hybrid, lines 382-384: the keyword test.
KeywordKeeps(keyword, text) ==
  keyword = NoneVal \/ StrIn(lower(keyword), lower(text))

\* The loop of recall_memory_hybrid, lines 377-385.
RECURSIVE CollectHybrid(_, _)
CollectHybrid(mds, keyword) ==
  IF mds = << >> THEN << >>
  ELSE (IF HasText(Head(mds)) /\ KeywordKeeps(keyword, Head(mds).original_text)
          THEN << Head(mds).original_text >> ELSE << >>)
       \o CollectHybrid(Tail(mds), keyword)

recall_memory_hybrid(query, keyword, top_k, filter, c, down) ==
  LET call == [SearchCall("recall_memory_hybrid", query, top_k, filter, c)
                 EXCEPT !.keyword = keyword]
      st1 == get_collection(store, c)
      e == generate_embedding(query, "RETRIEVAL_QUERY", down)
      results == chroma_query(st1, c, e.value, top_k, filter)
  IN /\ IF query = Empty
          THEN /\ last' = [call EXCEPT !.err = "validation", !.exc = Caught("validation")]
               /\ UNCHANGED store
          ELSE IF ~ValidCollectionName(c)
            THEN GetCollectionFailed(call)
          ELSE /\ store' = st1
               /\ IF e.err # "ok"
                    THEN last' = [call EXCEPT !.err = e.err, !.exc = Caught(e.err),
                                              !.embCalls = e.calls]
                    ELSE IF results.err # "ok"
                      THEN last' = [call EXCEPT !.err = results.err, !.exc = Caught(results.err),
                                                !.embCalls = e.calls]
                      ELSE last' = [call EXCEPT
                             !.rtexts = IF Len(results.metadatas) > 0
                                          THEN CollectHybrid(results.metadatas[1],
                                                             keyword)
                                          ELSE << >>,
                             !.embCalls = e.calls]
     /\ UNCHANGED <<privilege_granted, sinceGrant>>
     /\ Seq_unchanged

\* Mutant: the body reports success without deleting anything.
delete_collection_body_keeps(st, c) ==
  IF c = EmptyStr THEN [err |-> "validation", st |-> st]
  ELSE IF c \notin DOMAIN st THEN [err |-> "store", st |-> st]
  ELSE [err |-> "ok", st |-> st]

\* The body of delete_collection, lines 403-408: outcome and store afterwards.
delete_collection_body(st, c) ==
  IF c = EmptyStr THEN [err |-> "validation", st |-> st]
  ELSE IF c \notin DOMAIN st THEN [err |-> "store", st |-> st]
  ELSE [err |-> "ok", st |-> chroma_delete_collection(st, c)]

\* Mutant: the wrapper gives the grant back when the body raises.
delete_collection_refunds(c) ==
  LET call == Call("delete_collection", c, EmptyStr, Empty)
      r == delete_collection_body(store, c)
  IN /\ IF require_privilege_check(privilege_granted)
          THEN /\ privilege_granted' =
                    (IF r.err = "ok"
                       THEN require_privilege_reset(privilege_granted)
                       ELSE privilege_granted)
               /\ store' = r.st
               /\ last' = [call EXCEPT !.err = r.err, !.exc = Caught(r.err),
                                       !.rbool = (r.err = "ok")]
          ELSE /\ last' = [call EXCEPT !.err = "privilege", !.exc = require_privilege_denied]
               /\ UNCHANGED <<privilege_granted, store>>
     /\ sinceGrant' = BumpSinceGrant
     /\ Seq_unchanged

\* Mutant: the tool is registered without @require_privilege.
delete_collection_ungated(c) ==
  LET call == Call("delete_collection", c, EmptyStr, Empty)
      r == delete_collection_body(store, c)
  IN /\ store' = r.st
     /\ last' = [call EXCEPT !.err = r.err, !.exc = Caught(r.err),
                                       !.rbool = (r.err = "ok")]
     /\ UNCHANGED privilege_granted
     /\ sinceGrant' = BumpSinceGrant
     /\ Seq_unchanged

delete_collection(c) ==
  LET call == Call("delete_collection", c, EmptyStr, Empty)
      r == delete_collection_body(store, c)
  IN /\ IF require_privilege_check(privilege_granted)
          THEN /\ privilege_granted' = require_privilege_reset(privilege_granted)
               /\ store' = r.st
               /\ last' = [call EXCEPT !.err = r.err, !.exc = Caught(r.err),
                                       !.rbool = (r.err = "ok")]
          ELSE /\ last' = [call EXCEPT !.err = "privilege", !.exc = require_privilege_denied]
               /\ UNCHANGED <<privilege_granted, store>>
     /\ sinceGrant' = BumpSinceGrant
     /\ Seq_unchanged

list_collection_ids(c) ==
  LET call == Call("list_collection_ids", c, EmptyStr, Empty)
      st1 == get_collection(store, c)
      results == chroma_get(st1, c, DOMAIN st1[c])
  IN /\ IF c = EmptyStr
          THEN /\ last' = [call EXCEPT !.err = "validation", !.exc = Caught("validation")]
               /\ UNCHANGED store
          ELSE IF ~ValidCollectionName(c)
            THEN GetCollectionFailed(call)
          ELSE /\ store' = st1
               /\ last' = [call EXCEPT !.rids = results.ids]
     /\ UNCHANGED <<privilege_granted, sinceGrant>>
     /\ Seq_unchanged

(***************************************************************************)
(* Sequential specification: one caller, each operation runs to completion *)
(***************************************************************************)
TagMeta == [k \in {"tag"} |-> TagT]
DropText == [k \in {"original_text"} |-> NoneVal]

TextIn == {Empty} \cup Texts
QueryIn == {Empty, TextB}
DocIdIn == {EmptyStr} \cup ExplicitIds
AnyId == {EmptyStr} \cup ExplicitIds \cup UuidPool
UpdMetas == {EmptyDict, DropText}
ReqNames == Names \cup {EmptyStr}

IdleThread ==
  [at |-> "idle", op |-> "none", coll |-> EmptyStr, err |-> "ok",
   doc_id |-> EmptyStr, meta |-> EmptyDict, emb |-> 0]

Init ==
  /\ store = [n \in {} |-> EmptyDict]
  /\ privilege_granted = FALSE
  /\ last = Blank
  /\ sinceGrant = -1
  /\ grantRepeated = FALSE
  /\ pc = [t \in Threads |-> IdleThread]
  /\ ran = 0

Next ==
  \/ grant_privilege
  \/ \E text \in TextIn, d \in DocIdIn, c \in Names, u \in UuidPool,
        down \in BOOLEAN :
       add_memory(text, d, EmptyDict, c, u, down)
  \/ \E q \in QueryIn : recall_memory(q, 1, EmptyDict, DEFAULT_COLLECTION_NAME, FALSE)
  \/ \E d \in AnyId, c \in Names : delete_memory(d, c)
  \/ \E q \in QueryIn, genDown \in BOOLEAN :
       summarize_memory(q, 1, EmptyDict, DEFAULT_COLLECTION_NAME, FALSE, genDown)
  \/ \E q \in QueryIn : check_memory(q, EmptyDict, DEFAULT_COLLECTION_NAME, FALSE)
  \/ \E c \in ReqNames : summarize_collection(c, Empty, FALSE)
  \/ \E d \in AnyId, m \in UpdMetas, c \in Names : update_memory_metadata(d, m, c)
  \/ \E d \in AnyId, c \in Names : get_memory_by_id(d, c)
  \/ list_collections
  \/ \E q \in QueryIn :
       recall_memory_with_distance(q, 1, EmptyDict, DEFAULT_COLLECTION_NAME, FALSE)
  \/ \E q \in QueryIn :
       recall_memory_hybrid(q, NoneVal, 1, EmptyDict, DEFAULT_COLLECTION_NAME, FALSE)
  \/ \E c \in ReqNames : delete_collection(c)
  \/ \E c \in ReqNames : list_collection_ids(c)

Spec == Init /\ [][Next]_vars

(***************************************************************************)
(* Properties of the sequential specification                              *)
(***************************************************************************)
PrivOps == {"list_collections", "delete_collection"}

\* The step just taken is a call of a privileged operation.
PrivStep == last'.op \in PrivOps

\* C1: after grant_privilege(), the first privileged call is let through to
\* its body and every further privileged call made before a new grant fails
\* with a privilege error.
C1_SingleUse ==
  [][PrivStep =>
       /\ (sinceGrant = 0 => last'.err # "privilege")
       /\ (sinceGrant >= 1 => last'.err = "privilege")]_vars

C1_Witness ==
  /\ sinceGrant = 2
  /\ last.op \in PrivOps
  /\ last.err = "privilege"

\* C3: a privileged call made while the gate is ungranted fails with a
\* privilege error, changes nothing in the store and leaves the gate
\* ungranted.
C3_Denial ==
  [][(PrivStep /\ ~privilege_granted) =>
       /\ last'.err = "privilege"
       /\ store' = store
       /\ privilege_granted' = FALSE]_vars

C3_Witness ==
  /\ last.op = "delete_collection"
  /\ last.err = "privilege"
  /\ last.coll \in DOMAIN store
  /\ store[last.coll] # EmptyDict
  /\ ~privilege_granted

\* C4 (as claimed): two consecutive add_memory calls with the same explicit
\* doc_id in the same collection, with valid text and a working provider,
\* both succeed and leave the record holding the second call's text and
\* embedding.
C4_Upsert ==
  [][(/\ last.op = "add_memory" /\ last.err = "ok" /\ last.doc_id # EmptyStr
      /\ last'.op = "add_memory" /\ last'.doc_id = last.doc_id
      /\ last'.coll = last.coll
      /\ "original_text" \notin DOMAIN last'.meta
      /\ last'.err \notin {"validation", "upstream"})
     =>
     (/\ last'.err = "ok"
      /\ last'.rid = last.doc_id
      /\ Has(store', last'.coll, last'.doc_id)
      /\ "original_text" \in DOMAIN store'[last'.coll][last'.doc_id].metadata
      /\ store'[last'.coll][last'.doc_id].metadata.original_text = last'.text
      /\ store'[last'.coll][last'.doc_id].embedding
           = embed_content(last'.text, "RETRIEVAL_DOCUMENT"))]_vars

\* C5 (as claimed): add_memory(text=X) followed at once by get_memory_by_id
\* with the returned id in the same collection returns X.
C5_RoundTrip ==
  [][(/\ last.op = "add_memory" /\ last.err = "ok"
      /\ last.doc_id = EmptyStr /\ last.meta = EmptyDict
      /\ last'.op = "get_memory_by_id"
      /\ last'.doc_id = last.rid
      /\ last'.coll = last.coll)
     =>
     (last'.err = "ok" /\ last'.rtext = last.text)]_vars

\* C6 (as claimed): every record of every collection has the metadata key
\* original_text.
C6_OriginalTextKept ==
  \A c \in DOMAIN store : \A d \in DOMAIN store[c] :
    "original_text" \in DOMAIN store[c][d].metadata

\* The call just made had an empty required input.
EmptyInputStep ==
  \/ last'.op = "add_memory" /\ last'.text = Empty
  \/ /\ last'.op \in {"recall_memory", "summarize_memory", "check_memory",
                      "recall_memory_with_distance", "recall_memory_hybrid"}
     /\ last'.text = Empty
  \/ /\ last'.op \in {"delete_memory", "get_memory_by_id", "update_memory_metadata"}
     /\ last'.doc_id = EmptyStr
  \/ last'.op = "update_memory_metadata" /\ last'.meta = EmptyDict
  \/ /\ last'.op \in {"summarize_collection", "list_collection_ids",
                      "delete_collection"}
     /\ last'.coll = EmptyStr

\* C7 (as claimed): a call with an empty required input fails with a
\* validation error and leaves the store and the privilege gate as they were.
C7_ValidationFirst ==
  [][EmptyInputStep =>
       /\ last'.err = "validation"
       /\ store' = store
       /\ privilege_granted' = privilege_granted]_vars

\* C7 (amended): a call with an empty required input fails and leaves the
\* store as it was; it fails with a validation error and leaves the gate as
\* it was, except delete_collection, which passes the gate first: ungranted
\* it fails with a privilege error, granted it fails with the validation
\* error and the grant is consumed.
C7_ValidationAmended ==
  [][EmptyInputStep =>
       /\ last'.err # "ok"
       /\ store' = store
       /\ IF last'.op = "delete_collection"
            THEN /\ privilege_granted' = FALSE
                 /\ last'.err = IF privilege_granted THEN "validation"
                                 ELSE "privilege"
            ELSE /\ last'.err = "validation"
                 /\ privilege_granted' = privilege_granted]_vars

C7_Witness ==
  /\ last.op = "delete_collection"
  /\ last.coll = EmptyStr
  /\ last.err = "validation"
  /\ sinceGrant = 1
  /\ store # << >>

\* The call just made is a summarization that succeeded on an empty
\* context: summarize_memory whose retrieval yields no text, or
\* summarize_collection on a collection that was empty or absent.
EmptyContextStep ==
  \/ /\ last'.op = "summarize_memory"
     /\ last'.err = "ok"
     /\ recall_memory_body(store, last'.text, last'.top_k, last'.filter,
                           last'.coll, FALSE).texts = << >>
  \/ /\ last'.op = "summarize_collection"
     /\ last'.coll # EmptyStr
     /\ Records(store, last'.coll) = EmptyDict

\* C8 (as claimed): such a call returns "" and makes no call to the Model
\* Provider, neither embedding nor generation.
C8_NoProviderCall ==
  [][EmptyContextStep =>
       /\ last'.err = "ok"
       /\ last'.rtext = Empty
       /\ last'.embCalls = 0
       /\ last'.genCalls = 0]_vars

\* C8 (amended): such a call returns "" and makes no generation call;
\* summarize_collection makes no provider call at all, summarize_memory
\* makes the one embedding call for its query.
C8_NoGenerationCall ==
  [][EmptyContextStep =>
       /\ last'.err = "ok"
       /\ last'.rtext = Empty
       /\ last'.genCalls = 0
       /\ last'.embCalls = IF last'.op = "summarize_memory" THEN 1 ELSE 0]_vars

C8_Witness ==
  /\ last.op = "summarize_memory"
  /\ last.err = "ok"
  /\ last.rtext = Empty
  /\ last.embCalls = 1
  /\ Records(store, last.coll) # EmptyDict

\* The call just made is delete_memory with a non-empty doc_id.
DeleteStep == last'.op = "delete_memory" /\ last'.doc_id # EmptyStr

OthersKept(c) ==
  \A n \in DOMAIN store : n # c => (n \in DOMAIN store' /\ store'[n] = store[n])

\* C9 (as claimed): delete_memory of an absent id returns true and leaves
\* the store unchanged; of a present id, it removes that record only.
C9_IdempotentDelete ==
  [][DeleteStep =>
       LET c == last'.coll
           d == last'.doc_id
       IN /\ last'.err = "ok" /\ last'.rbool
          /\ IF Has(store, c, d)
               THEN /\ DOMAIN store' = DOMAIN store
                    /\ DOMAIN store'[c] = DOMAIN store[c] \ {d}
                    /\ \A i \in DOMAIN store'[c] : store'[c][i] = store[c][i]
                    /\ OthersKept(c)
               ELSE store' = store]_vars

\* C9 (amended): delete_memory of an absent id returns true and changes no
\* record; the only possible change is that the target collection, if it did
\* not exist, now exists and is empty. Of a present id, it removes that
\* record only.
C9_DeleteAmended ==
  [][DeleteStep =>
       LET c == last'.coll
           d == last'.doc_id
       IN /\ last'.err = "ok" /\ last'.rbool
          /\ DOMAIN store' = DOMAIN store \cup {c}
          /\ OthersKept(c)
          /\ DOMAIN store'[c] = DOMAIN Records(store, c) \ {d}
          /\ \A i \in DOMAIN store'[c] : store'[c][i] = store[c][i]]_vars

C9_Witness ==
  /\ last.op = "delete_memory"
  /\ last.err = "ok"
  /\ last.rbool
  /\ last.coll \in DOMAIN store
  /\ store[last.coll] # EmptyDict
  /\ last.doc_id \notin DOMAIN store[last.coll]

(***************************************************************************)
(* Retrieval specification: one collection filled and edited by add,       *)
(* update and delete, searched with every query, keyword, top_k and filter *)
(***************************************************************************)
TextAB == <<"A", "B">>
RecallQueries == {TextB, TextAB}
Keywords == {NoneVal, Empty, <<"B">>, <<"a">>}
Filters == {EmptyDict, TagMeta}
TopKs == 1..MaxTopK

NextRecall ==
  \/ \E text \in Texts, d \in RecallIds, m \in Filters, u \in UuidPool :
       add_memory(text, d, m, DEFAULT_COLLECTION_NAME, u, FALSE)
  \/ \E d \in RecallIds, m \in {TagMeta, DropText} :
       update_memory_metadata(d, m, DEFAULT_COLLECTION_NAME)
  \/ \E d \in RecallIds : delete_memory(d, DEFAULT_COLLECTION_NAME)
  \/ \E q \in RecallQueries, k \in TopKs, f \in Filters :
       recall_memory(q, k, f, DEFAULT_COLLECTION_NAME, FALSE)
  \/ \E q \in RecallQueries, k \in TopKs, f \in Filters :
       recall_memory_with_distance(q, k, f, DEFAULT_COLLECTION_NAME, FALSE)
  \/ \E q \in RecallQueries, kw \in Keywords, k \in TopKs, f \in Filters :
       recall_memory_hybrid(q, kw, k, f, DEFAULT_COLLECTION_NAME, FALSE)
  \/ \E q \in RecallQueries, f \in Filters :
       check_memory(q, f, DEFAULT_COLLECTION_NAME, FALSE)

SpecRecall == Init /\ [][NextRecall]_vars

\* keyword occurs in text, letter case ignored.
ContainsIgnoringCase(text, keyword) ==
  \E j \in 0..(Len(text) - Len(keyword)) :
    \A n \in 1..Len(keyword) : LowerChar(text[j + n]) = LowerChar(keyword[n])

\* a is b with some entries left out, the rest in b's order.
RECURSIVE IsSubSeq(_, _)
IsSubSeq(a, b) ==
  IF a = << >> THEN TRUE
  ELSE IF b = << >> THEN FALSE
  ELSE IF Head(a) = Head(b) THEN IsSubSeq(Tail(a), Tail(b))
  ELSE IsSubSeq(a, Tail(b))

\* What recall_memory returns in this state for the arguments of the last call.
RecallOfLast ==
  recall_memory_body(store, last.text, last.top_k, last.filter, last.coll,
                     FALSE).texts

\* C10: every text recall_memory_hybrid returns for a supplied keyword
\* contains the keyword, letter case ignored, and the returned list is a
\* sub-sequence of what recall_memory returns for the same query, top_k and
\* filter (so it may hold fewer than top_k texts).
C10_HybridFilter ==
  (last.op = "recall_memory_hybrid" /\ last.err = "ok" /\ last.keyword # NoneVal)
  =>
  /\ \A i \in 1..Len(last.rtexts) :
       ContainsIgnoringCase(last.rtexts[i], last.keyword)
  /\ IsSubSeq(last.rtexts, RecallOfLast)
  /\ Len(last.rtexts) <= last.top_k

C10_Witness ==
  /\ last.op = "recall_memory_hybrid"
  /\ last.err = "ok"
  /\ last.keyword = <<"a">>
  /\ last.top_k = 2
  /\ Len(RecallOfLast) = 2
  /\ last.rtexts = << TextAb >>

(***************************************************************************)
(* Concurrent specification: privileged calls run in parallel threads, as  *)
(* in a host that serves calls concurrently. require_privilege.wrapper     *)
(* takes no lock: the test of the flag (line 25), the reset (line 26) and  *)
(* the call of the body (line 27) are separate steps of a thread.          *)
(***************************************************************************)
\* A thread enters the wrapper of list_collections or delete_collection.
wrapper_enter(t, op, c) ==
  /\ pc[t].at = "idle"
  /\ pc' = [pc EXCEPT ![t] = [IdleThread EXCEPT !.at = "check", !.op = op,
                                                !.coll = c]]
  /\ UNCHANGED <<store, privilege_granted, last, sinceGrant, grantRepeated, ran>>

\* Line 25: `if _privilege_granted:`; lines 28-36 when it is false.
wrapper_check(t) ==
  /\ pc[t].at = "check"
  /\ pc' = [pc EXCEPT ![t] =
              IF require_privilege_check(privilege_granted)
                THEN [@ EXCEPT !.at = "reset"]
                ELSE [@ EXCEPT !.at = "idle", !.err = "privilege"]]
  /\ UNCHANGED <<store, privilege_granted, last, sinceGrant, grantRepeated, ran>>

\* Line 26: `_privilege_granted = False`; the body is entered next.
wrapper_reset(t) ==
  /\ pc[t].at = "reset"
  /\ privilege_granted' = require_privilege_reset(privilege_granted)
  /\ ran' = ran + 1
  /\ pc' = [pc EXCEPT ![t].at = "body"]
  /\ UNCHANGED <<store, last, sinceGrant, grantRepeated>>

\* Line 27: `return func(*args, **kwargs)`.
wrapper_body(t) ==
  /\ pc[t].at = "body"
  /\ LET r == IF pc[t].op = "delete_collection"
                THEN delete_collection_body(store, pc[t].coll)
                ELSE [err |-> "ok", st |-> store]
     IN /\ store' = r.st
        /\ pc' = [pc EXCEPT ![t] = [@ EXCEPT !.at = "idle", !.err = r.err]]
  /\ UNCHANGED <<privilege_granted, last, sinceGrant, grantRepeated, ran>>

\* grant_privilege, line 67: one store to the flag.
grant_privilege_conc ==
  /\ privilege_granted' = TRUE
  /\ ran' = 0
  /\ UNCHANGED <<store, last, sinceGrant, grantRepeated, pc>>

NextConc ==
  \/ grant_privilege_conc
  \/ \E t \in Threads : wrapper_enter(t, "list_collections", EmptyStr)
  \/ \E t \in Threads, c \in Names : wrapper_enter(t, "delete_collection", c)
  \/ \E t \in Threads : wrapper_check(t)
  \/ \E t \in Threads : wrapper_reset(t)
  \/ \E t \in Threads : wrapper_body(t)
  \/ \E c \in Names : add_memory(TextB, "d1", EmptyDict, c, "u1", FALSE)

SpecConc == Init /\ [][NextConc]_vars

\* C2 (as claimed): of the privileged calls running concurrently after one
\* grant, at most one enters its operation body.
C2_OneConsumptionPerGrant == ran <= 1

(***************************************************************************)
(* Claims on metadata updates and distance recall                          *)
(***************************************************************************)
UpdateOkStep == last'.op = "update_memory_metadata" /\ last'.err = "ok"

\* The distances recall_memory_with_distance(query, top_k) on collection c
\* pairs with record d in store st: none when d is not among the hits or is
\* dropped for lacking original_text.
DistancesOf(st, c, d, query, top_k) ==
  LET qemb == embed_content(query, "RETRIEVAL_QUERY")
      results == chroma_query(st, c, qemb, top_k, EmptyDict)
  IN { results.distances[1][i] :
         i \in { j \in 1..Len(results.ids[1]) :
                   results.ids[1][j] = d /\ HasText(results.metadatas[1][j]) } }

\* C11 (as claimed): a successful update_memory_metadata leaves the record's
\* embedding unchanged, and every recall_memory_with_distance query that
\* returned the record before the update returns it afterwards with the same
\* distance.
C11_SameDistanceAfterUpdate ==
  [][UpdateOkStep =>
       LET c == last'.coll
           d == last'.doc_id
       IN /\ store'[c][d].embedding = store[c][d].embedding
          /\ \A q \in RecallQueries, k \in TopKs :
               DistancesOf(store, c, d, q, k) # {}
                 => DistancesOf(store', c, d, q, k) = DistancesOf(store, c, d, q, k)
    ]_vars

\* The part of C11 the code keeps: the stored embedding survives the update.
C11_EmbeddingKept ==
  [][UpdateOkStep =>
       store'[last'.coll][last'.doc_id].embedding
         = store[last'.coll][last'.doc_id].embedding]_vars

\* C12: every successful recall_memory_with_distance returns as many
\* distances as texts, the distances never decrease along the list, and each
\* (text, distance) pair is the original_text of a record of the collection
\* that matches the filter together with that record's own distance to the
\* query, also when nearer hits were dropped for lacking original_text.
C12_PairsOrdered ==
  (last.op = "recall_memory_with_distance" /\ last.err = "ok") =>
    LET qemb == embed_content(last.text, "RETRIEVAL_QUERY")
        recs == store[last.coll]
    IN /\ Len(last.rtexts) = Len(last.rdists)
       /\ \A i, j \in 1..Len(last.rdists) :
            i <= j => last.rdists[i] <= last.rdists[j]
       /\ \A i \in 1..Len(last.rtexts) :
            \E d \in DOMAIN recs :
              /\ HasText(recs[d].metadata)
              /\ recs[d].metadata.original_text = last.rtexts[i]
              /\ WhereMatches(recs[d].metadata, last.filter)
              /\ Distance(recs[d].embedding, qemb) = last.rdists[i]

\* A recall with top_k = 2 over two matching records whose nearest hit has
\* no original_text: one pair comes back, that of the farther record.
C12_Witness ==
  /\ last.op = "recall_memory_with_distance"
  /\ last.err = "ok"
  /\ last.top_k = 2
  /\ Len(last.rtexts) = 1
  /\ LET results == chroma_query(store, last.coll,
                                 embed_content(last.text, "RETRIEVAL_QUERY"),
                                 last.top_k, last.filter)
     IN /\ Len(results.ids[1]) = 2
        /\ ~HasText(results.metadatas[1][1])
        /\ results.distances[1][1] < results.distances[1][2]
        /\ last.rdists = << results.distances[1][2] >>

(***************************************************************************)
(* Claims on collections and the privilege gate                            *)
(***************************************************************************)
DeleteCollectionOk(l) == l.op = "delete_collection" /\ l.err = "ok"

\* C13: a successful delete_collection(name) removes the collection with all
\* its records and leaves every other collection as it was; the call right
\* after it, when it is list_collection_ids(name), returns the empty list,
\* and when it is get_memory_by_id(id, name), returns the empty string.
C13_CollectionGone ==
  [][/\ DeleteCollectionOk(last') =>
          /\ last'.coll \in DOMAIN store
          /\ last'.coll \notin DOMAIN store'
          /\ \A n \in DOMAIN store \ {last'.coll} :
               n \in DOMAIN store' /\ store'[n] = store[n]
     /\ (DeleteCollectionOk(last) /\ last'.coll = last.coll) =>
          /\ last'.op = "list_collection_ids"
               => last'.err = "ok" /\ last'.rids = << >>
          /\ (last'.op = "get_memory_by_id" /\ last'.doc_id # EmptyStr)
               => last'.err = "ok" /\ last'.rtext = Empty
    ]_vars

\* A collection has just been deleted while another one still holds records.
C13_Witness ==
  /\ DeleteCollectionOk(last)
  /\ last.coll \notin DOMAIN store
  /\ \E n \in DOMAIN store : store[n] # EmptyDict

\* C14: whenever a collection exists before a step and not after it, the
\* step is a successful delete_collection of that collection that found the
\* gate granted and consumed the grant; no other operation and no
\* delete_collection without a grant removes a collection.
C14_OnlyPrivilegedDelete ==
  [][\A n \in DOMAIN store :
       n \notin DOMAIN store' =>
         /\ DeleteCollectionOk(last')
         /\ last'.coll = n
         /\ privilege_granted
         /\ ~privilege_granted'
    ]_vars

\* The first privileged call after a grant deleted the only collection.
C14_Witness ==
  /\ DeleteCollectionOk(last)
  /\ sinceGrant = 1
  /\ ~privilege_granted
  /\ DOMAIN store = {}

C16_GrantIdempotent ==
  [][/\ last'.op = "grant_privilege" =>
          last'.rbool /\ last'.err = "ok" /\ privilege_granted'
     /\ (PrivStep /\ sinceGrant = 0) =>
          privilege_granted /\ last'.err # "privilege"
     /\ (PrivStep /\ sinceGrant >= 1) =>
          ~privilege_granted /\ last'.err = "privilege"
    ]_vars

\* Two or more grants in a row, then one privileged call that ran, then a
\* second privileged call that was refused.
C16_Witness ==
  /\ grantRepeated
  /\ sinceGrant = 2
  /\ last.op \in PrivOps
  /\ last.err = "privilege"

(***************************************************************************)
(* Claims on failures and on lazy creation                                 *)
(***************************************************************************)
UpdateAbsentStep ==
  /\ last'.op = "update_memory_metadata"
  /\ last'.doc_id # EmptyStr
  /\ last'.meta # EmptyDict
  /\ ~Has(store, last'.coll, last'.doc_id)

\* C17: update_memory_metadata with valid inputs on a doc_id that has no
\* record in the collection fails with the not-found error and changes no
\* record: no record with that id exists afterwards, and every record that
\* existed keeps its metadata and embedding.
C17_AbsentUpdateFails ==
  [][UpdateAbsentStep =>
       /\ last'.err = "not_found"
       /\ ~last'.rbool
       /\ ~Has(store', last'.coll, last'.doc_id)
       /\ \A n \in DOMAIN store \cup DOMAIN store' :
            Records(store', n) = Records(store, n)
    ]_vars

\* An update was refused as not found in a collection that holds a record.
C17_Witness ==
  /\ last.op = "update_memory_metadata"
  /\ last.err = "not_found"
  /\ Records(store, last.coll) # EmptyDict

FailedAfterValidation(l) ==
  l.err \in {"upstream", "store", "not_found", "KeyError"}

\* C18 (as claimed): an operation that passes input validation and then
\* fails leaves the store exactly as it was before the call, the set of
\* existing collections included.
C18_NoPartialFailure ==
  [][FailedAfterValidation(last') => store' = store]_vars

\* The part of C18 the code keeps: an operation that passes input validation
\* and then fails leaves every record of every collection as it was and
\* removes no collection; what it can leave behind is the collection it
\* names, created empty.
C18_FailureKeepsRecords ==
  [][FailedAfterValidation(last') =>
       /\ DOMAIN store \subseteq DOMAIN store'
       /\ DOMAIN store' \subseteq DOMAIN store \cup {last'.coll}
       /\ \A n \in DOMAIN store' : Records(store', n) = Records(store, n)
    ]_vars

(***************************************************************************)
(* Failure specification: the single caller with both collections, and     *)
(* with the Model Provider failing or the store refusing the query in any  *)
(* call.                                                                   *)
(***************************************************************************)
FailTopKs == {0, 1}

NextFail ==
  \/ grant_privilege
  \/ \E c \in Names, down \in BOOLEAN :
       add_memory(TextB, "d1", EmptyDict, c, "u1", down)
  \/ \E k \in FailTopKs, c \in Names, down \in BOOLEAN :
       recall_memory(TextB, k, EmptyDict, c, down)
  \/ \E c \in Names : delete_memory("d1", c)
  \/ \E c \in Names, down \in BOOLEAN, genDown \in BOOLEAN :
       summarize_memory(TextB, 1, EmptyDict, c, down, genDown)
  \/ \E c \in Names, down \in BOOLEAN : check_memory(TextB, EmptyDict, c, down)
  \/ \E c \in Names, genDown \in BOOLEAN : summarize_collection(c, Empty, genDown)
  \/ \E d \in {"d1", "u1"}, c \in Names : update_memory_metadata(d, TagMeta, c)
  \/ \E d \in DocIdIn, c \in Names : get_memory_by_id(d, c)
  \/ list_collections
  \/ \E k \in FailTopKs, c \in Names, down \in BOOLEAN :
       recall_memory_with_distance(TextB, k, EmptyDict, c, down)
  \/ \E k \in FailTopKs, c \in Names, down \in BOOLEAN :
       recall_memory_hybrid(TextB, NoneVal, k, EmptyDict, c, down)
  \/ \E c \in Names : delete_collection(c)
  \/ \E c \in ReqNames : list_collection_ids(c)

SpecFail == Init /\ [][NextFail]_vars

ResolvingOps ==
  {"add_memory", "recall_memory", "delete_memory", "summarize_memory",
   "check_memory", "summarize_collection", "update_memory_metadata",
   "get_memory_by_id", "recall_memory_with_distance", "recall_memory_hybrid",
   "list_collection_ids"}

ReadOps ==
  {"recall_memory", "summarize_memory", "check_memory", "summarize_collection",
   "get_memory_by_id", "recall_memory_with_distance", "recall_memory_hybrid",
   "list_collection_ids"}

\* The call got past its input validation and so resolved its collection.
Resolved(l) == l.op \in ResolvingOps /\ l.err # "validation"

\* C19: after an operation that resolves a collection name, reads included
\* and whether or not it then fails, that collection exists; a collection
\* that did not exist before is created empty (unless the operation is the
\* add_memory that fills it); a read that resolves an existing name leaves
\* the whole store as it was; and every collection that comes into existence
\* is the one named by the operation that resolved it.
C19_LazyCreation ==
  [][/\ Resolved(last') =>
          /\ last'.coll \in DOMAIN store'
          /\ (last'.coll \notin DOMAIN store /\ last'.op # "add_memory")
               => store'[last'.coll] = EmptyDict
          /\ last'.op \in ReadOps =>
               /\ \A n \in DOMAIN store : n \in DOMAIN store' /\ store'[n] = store[n]
               /\ last'.coll \in DOMAIN store => store' = store
     /\ \A n \in DOMAIN store' \ DOMAIN store :
          Resolved(last') /\ last'.coll = n
    ]_vars

\* A check_memory whose embedding call failed is the only operation that
\* named "notes" so far: the collection exists and is empty.
C19_Witness ==
  /\ last.op = "check_memory"
  /\ last.err = "upstream"
  /\ last.coll = "notes"
  /\ DOMAIN store = {"notes"}
  /\ store["notes"] = EmptyDict

(***************************************************************************)
(* Claims on recall                                                        *)
(***************************************************************************)
\* The original_text of the hits that have one, in the order of the hits.
TextsOfHits(recs, hits) ==
  LET K == {i \in 1..Len(hits) : HasText(recs[hits[i]].metadata)}
      nth(n) == CHOOSE i \in K : Cardinality({x \in K : x < i}) = n - 1
  IN [n \in 1..Cardinality(K) |-> recs[hits[nth(n)]].metadata.original_text]

\* hits lists, nearest first, the n records of M nearest to qemb.
IsNearest(recs, M, qemb, n, hits) ==
  LET dist(d) == Distance(recs[d].embedding, qemb)
      m == IF Cardinality(M) < n THEN Cardinality(M) ELSE n
  IN /\ Len(hits) = m
     /\ \A i \in 1..m : hits[i] \in M
     /\ \A i, j \in 1..m : i < j => hits[i] # hits[j] /\ dist(hits[i]) <= dist(hits[j])
     /\ \A d \in M : (\A i \in 1..m : hits[i] # d)
                       => \A i \in 1..m : dist(hits[i]) <= dist(d)

\* C20: a successful recall_memory returns at most top_k texts, and they are
\* exactly the original_text values of the top_k records nearest to the query
\* among those matching the filter, nearest first, with the records that
\* have no original_text left out and not replaced by farther records.
C20_TopKTexts ==
  (last.op = "recall_memory" /\ last.err = "ok") =>
    LET qemb == embed_content(last.text, "RETRIEVAL_QUERY")
        recs == store[last.coll]
        M == {d \in DOMAIN recs : WhereMatches(recs[d].metadata, last.filter)}
    IN /\ Len(last.rtexts) <= last.top_k
       /\ \E n \in 0..last.top_k : \E hits \in [1..n -> M] :
            /\ IsNearest(recs, M, qemb, last.top_k, hits)
            /\ last.rtexts = TextsOfHits(recs, hits)

\* A recall with top_k = 1 whose nearest record has no original_text returns
\* nothing although a farther matching record has one.
C20_Witness ==
  /\ last.op = "recall_memory"
  /\ last.err = "ok"
  /\ last.top_k = 1
  /\ last.rtexts = << >>
  /\ \E d \in DOMAIN store[last.coll] :
       /\ WhereMatches(store[last.coll][d].metadata, last.filter)
       /\ HasText(store[last.coll][d].metadata)

(***************************************************************************)
(* Claims on the existence check                                           *)
(***************************************************************************)
\* Some record of collection c in store st matches the filter.
SomeMatch(st, c, filter) ==
  \E d \in DOMAIN Records(st, c) : WhereMatches(st[c][d].metadata, filter)

\* C21: a successful check_memory returns true exactly when the collection
\* holds at least one record matching the filter, whether or not that record
\* has original_text; so a check_memory made right after a recall_memory
\* with top_k = 1 that returned a text, for the same topic, filter and
\* collection, returns true.
C21_ExistsIffMatch ==
  [][/\ (last'.op = "check_memory" /\ last'.err = "ok") =>
          (last'.rbool <=> SomeMatch(store, last'.coll, last'.filter))
     /\ (/\ last.op = "recall_memory" /\ last.err = "ok"
         /\ last.top_k = 1 /\ last.rtexts # << >>
         /\ last'.op = "check_memory"
         /\ last'.text = last.text
         /\ last'.filter = last.filter
         /\ last'.coll = last.coll) => (last'.err = "ok" /\ last'.rbool)
    ]_vars

\* check_memory with a filter returned true although no record matching the
\* filter has original_text, while another record does not match the filter.
C21_Witness ==
  /\ last.op = "check_memory"
  /\ last.err = "ok"
  /\ last.rbool
  /\ last.filter = TagMeta
  /\ \A d \in DOMAIN store[last.coll] :
       WhereMatches(store[last.coll][d].metadata, last.filter)
         => ~HasText(store[last.coll][d].metadata)
  /\ \E d \in DOMAIN store[last.coll] :
       ~WhereMatches(store[last.coll][d].metadata, last.filter)

(***************************************************************************)
(* Error specification: the single caller on one valid and one refused     *)
(* collection name, with empty inputs, absent ids, a refused query size    *)
(* and a failing Model Provider.                                           *)
(***************************************************************************)
ErrNames == {DEFAULT_COLLECTION_NAME, EmptyStr}

NextErr ==
  \/ grant_privilege
  \/ \E text \in {Empty, TextB}, c \in ErrNames, down \in BOOLEAN :
       add_memory(text, "d1", EmptyDict, c, "u1", down)
  \/ \E q \in QueryIn, k \in FailTopKs, c \in ErrNames, down \in BOOLEAN :
       recall_memory(q, k, EmptyDict, c, down)
  \/ \E d \in DocIdIn, c \in ErrNames : delete_memory(d, c)
  \/ \E q \in QueryIn, c \in ErrNames, down \in BOOLEAN, genDown \in BOOLEAN :
       summarize_memory(q, 1, EmptyDict, c, down, genDown)
  \/ \E q \in QueryIn, c \in ErrNames, down \in BOOLEAN :
       check_memory(q, EmptyDict, c, down)
  \/ \E c \in ErrNames, genDown \in BOOLEAN : summarize_collection(c, Empty, genDown)
  \/ \E d \in AnyId, m \in UpdMetas, c \in ErrNames : update_memory_metadata(d, m, c)
  \/ \E d \in DocIdIn, c \in ErrNames : get_memory_by_id(d, c)
  \/ list_collections
  \/ \E q \in QueryIn, k \in FailTopKs, c \in ErrNames, down \in BOOLEAN :
       recall_memory_with_distance(q, k, EmptyDict, c, down)
  \/ \E q \in QueryIn, k \in FailTopKs, c \in ErrNames, down \in BOOLEAN :
       recall_memory_hybrid(q, NoneVal, k, EmptyDict, c, down)
  \/ \E c \in ReqNames : delete_collection(c)
  \/ \E c \in ErrNames : list_collection_ids(c)

SpecErr == Init /\ [][NextErr]_vars

\* C22: a call that fails reaches the caller as exactly one McpError around
\* the original exception, whatever its kind (validation, not found,
\* privilege, upstream, store) and however many handlers it passed on the
\* way (recall_memory inside summarize_memory, get_collection inside a
\* tool); a call that returns raises nothing.
C22_SingleEnvelope ==
  /\ last.err = "ok" => last.exc = << >>
  /\ last.err # "ok" => last.exc = << "McpError", last.err >>

\* summarize_memory on a refused collection name: the error of
\* get_collection passed three handlers and carries one envelope.
C22_Witness ==
  /\ last.op = "summarize_memory"
  /\ last.coll = EmptyStr
  /\ last.err = "store"
  /\ last.exc = << "McpError", "store" >>

(***************************************************************************)
(* Concurrent writers: update_memory_metadata runs in a thread of its own  *)
(* while other callers add and delete the same record. The tool takes no   *)
(* lock: Collection.get (line 235) and Collection.update (lines 244-248)   *)
(* are two requests to the store, and other requests can run in between.   *)
(***************************************************************************)
\* Lines 228-241: the inputs are valid, the collection is resolved and the
\* embedding is read; an absent record ends the call with the not-found
\* error.
update_memory_metadata_read(t, doc_id, metadata, c) ==
  LET call == [Call("update_memory_metadata", c, doc_id, Empty)
                 EXCEPT !.meta = metadata]
      st1 == get_collection(store, c)
      results == chroma_get(st1, c, {doc_id})
  IN /\ pc[t].at = "idle"
     /\ doc_id # EmptyStr /\ metadata # EmptyDict /\ ValidCollectionName(c)
     /\ store' = st1
     /\ IF results.embeddings = << >>
          THEN /\ last' = [call EXCEPT !.err = "not_found",
                                      !.exc = Caught("not_found")]
               /\ UNCHANGED pc
          ELSE /\ pc' = [pc EXCEPT ![t] =
                          [IdleThread EXCEPT !.at = "write",
                                             !.op = "update_memory_metadata",
                                             !.coll = c, !.doc_id = doc_id,
                                             !.meta = metadata,
                                             !.emb = results.embeddings[1]]]
               /\ UNCHANGED last
     /\ UNCHANGED <<privilege_granted, sinceGrant, grantRepeated, ran>>

\* Lines 244-253: the metadata and the embedding read earlier are written,
\* and the call returns True.
update_memory_metadata_write(t) ==
  LET call == [Call("update_memory_metadata", pc[t].coll, pc[t].doc_id, Empty)
                 EXCEPT !.meta = pc[t].meta]
  IN /\ pc[t].at = "write"
     /\ store' = chroma_update(store, pc[t].coll, pc[t].doc_id, pc[t].meta,
                               pc[t].emb)
     /\ last' = [call EXCEPT !.rbool = TRUE]
     /\ pc' = [pc EXCEPT ![t] = IdleThread]
     /\ UNCHANGED <<privilege_granted, sinceGrant, grantRepeated, ran>>

NextUpdate ==
  \/ \E t \in Threads :
       update_memory_metadata_read(t, "d1", TagMeta, DEFAULT_COLLECTION_NAME)
  \/ \E t \in Threads : update_memory_metadata_write(t)
  \/ \E text \in Texts :
       add_memory(text, "d1", EmptyDict, DEFAULT_COLLECTION_NAME, "u1", FALSE)
  \/ delete_memory("d1", DEFAULT_COLLECTION_NAME)

SpecUpdate == Init /\ [][NextUpdate]_vars

\* An update_memory_metadata call of some thread returns True in this step.
UpdateReturnsTrue(t) == pc[t].at = "write" /\ pc'[t].at = "idle"

\* C23 (as claimed): when update_memory_metadata returns true, the record
\* exists with the supplied metadata and with the embedding it had just
\* before the write, that is the one last written by an add, whatever
\* add_memory and delete_memory calls on the same id ran between the call's
\* read and its write.
C23_AtomicUpdate ==
  [][\A t \in Threads :
       UpdateReturnsTrue(t) =>
         /\ Has(store, pc[t].coll, pc[t].doc_id)
         /\ Has(store', pc[t].coll, pc[t].doc_id)
         /\ store'[pc[t].coll][pc[t].doc_id].embedding
              = store[pc[t].coll][pc[t].doc_id].embedding
         /\ \A k \in DOMAIN pc[t].meta :
              /\ k \in DOMAIN store'[pc[t].coll][pc[t].doc_id].metadata
              /\ store'[pc[t].coll][pc[t].doc_id].metadata[k] = pc[t].meta[k]
    ]_vars

\* The stale-embedding half of C23 alone: a true return never changes the
\* embedding of a record that exists.
C23_NoStaleEmbedding ==
  [][\A t \in Threads :
       (UpdateReturnsTrue(t) /\ Has(store, pc[t].coll, pc[t].doc_id)) =>
         store'[pc[t].coll][pc[t].doc_id].embedding
           = store[pc[t].coll][pc[t].doc_id].embedding
    ]_vars

====
